---- MODULE Spec2Model ----
(***************************************************************************)
(* Model of Using_Dijkstra_to_Find_Shortest_Attack_Path.py: the Graph      *)
(* store (add_edge / neighbors / nodes), add_core_connectivity, dijkstra   *)
(* with its lazy-deletion priority queue, rebuild_path, and the query and  *)
(* ranking that main() performs on the results.                            *)
(***************************************************************************)
EXTENDS Integers, Sequences, FiniteSets

VARIABLES
    adj,        \* Graph.adj: node -> sequence of outgoing Edge records
    aug,        \* arguments of the add_core_connectivity call made so far (<<>> if none)
    pc,         \* "build" | "run" | "done" | "failed" | "hung"
    start,      \* main: start
    target,     \* main: target
    dist,       \* dijkstra: dist
    prev,       \* dijkstra: prev, node -> [parent, edge]
    pq,         \* dijkstra: pq, the heap's content as a sequence of <<d, node>>
    visited,    \* dijkstra: visited
    relaxedAt,  \* history: node -> the popped distance with which its edges were relaxed
    report,     \* main: which status line was printed
    cost,       \* main: cost (<<>> before it is computed, <<c>> after)
    path,       \* main: path
    assets,     \* main: assets, the list that is ranked
    ranked      \* main: ranked

vars == <<adj, aug, pc, start, target, dist, prev, pq, visited, relaxedAt,
          report, cost, path, assets, ranked>>

(***************************************************************************)
(* Bounds and input sets                                                   *)
(***************************************************************************)
\* organic add_edge calls explored with non-negative weights
MaxEdges == 3
\* add_edge calls explored when negative weights are allowed too
MaxEdgesAny == 2
\* organic add_edge calls explored around an add_core_connectivity call
MaxOrganic == 1

Nodes == {"A", "B", "C"}
Hub == "H"
AllNodes == Nodes \cup {Hub}
Weights == {0, 1}
AnyWeights == {-1, 1}
Pairs == Nodes \X Nodes
\* the edges explored together with negative weights join two different nodes
AnyPairs == {p \in Nodes \X Nodes : p[1] # p[2]}

\* float("inf"): larger than every finite distance the bounded graphs produce
Inf == 1000000

\* Python's order on the node names (the second component of a heap entry)
NodeOrder == <<"A", "B", "C", "H">>
Rank(n) == CHOOSE i \in 1..Len(NodeOrder) : NodeOrder[i] = n

EmptyMap == [x \in {} |-> 0]

(***************************************************************************)
(* Graph store                                                             *)
(***************************************************************************)
Edge(src, dst, Result, weight) ==
    [src |-> src, dst |-> dst, Result |-> Result, weight |-> weight]

\* dict.setdefault(k, []) on the adjacency mapping
SetDefault(a, k) ==
    IF k \in DOMAIN a THEN a ELSE [x \in DOMAIN a \cup {k} |-> IF x = k THEN <<>> ELSE a[x]]

add_edge_nodst(a, src, dst, Result, weight) ==
    LET a1 == SetDefault(a, src)
    IN  [a1 EXCEPT ![src] = Append(@, Edge(src, dst, Result, weight))]

add_edge(a, src, dst, Result, weight) ==
    LET a1 == SetDefault(a, src)
        a2 == [a1 EXCEPT ![src] = Append(@, Edge(src, dst, Result, weight))]
    IN  SetDefault(a2, dst)

neighbors(a, node) == IF node \in DOMAIN a THEN a[node] ELSE <<>>

nodes(a) == DOMAIN a

(***************************************************************************)
(* Dijkstra                                                                *)
(***************************************************************************)
\* dist.get(v, float("inf"))
DistGet(d, v) == IF v \in DOMAIN d THEN d[v] ELSE Inf

\* tuple comparison (float, str) used by heapq
EntryLess(x, y) == x[1] < y[1] \/ (x[1] = y[1] /\ Rank(x[2]) < Rank(y[2]))

HeapTopFirst(q) == 1

\* index of the entry heapq.heappop returns: the least tuple
HeapTop(q) ==
    CHOOSE i \in 1..Len(q) :
        /\ \A j \in 1..Len(q) : ~EntryLess(q[j], q[i])
        /\ \A j \in 1..(i-1) : q[j] # q[i]

RemoveAt(q, i) == [j \in 1..(Len(q)-1) |-> IF j < i THEN q[j] ELSE q[j+1]]

HeapRestKeep(q) == q

\* the heap's content after heappop
HeapRest(q) == RemoveAt(q, HeapTop(q))

MapPut(m, k, v) == [x \in DOMAIN m \cup {k} |-> IF x = k THEN v ELSE m[x]]

ShouldRelaxFirstOnly(nd, d, v) == v \notin DOMAIN d

\* line 63: nd < dist.get(v, float("inf"))
ShouldRelax(nd, d, v) == nd < DistGet(d, v)

\* lines 60-66: the for loop over graph.neighbors(u), from edge i on
RECURSIVE RelaxFrom(_, _, _, _, _)
RelaxFrom(es, i, cur_d, u, st) ==
    IF i > Len(es) THEN st
    ELSE LET e  == es[i]
             v  == e.dst
             nd == cur_d + e.weight
         IN  IF ShouldRelax(nd, st.dist, v)
             THEN RelaxFrom(es, i + 1, cur_d, u,
                            [dist |-> MapPut(st.dist, v, nd),
                             prev |-> MapPut(st.prev, v, [parent |-> u, edge |-> e]),
                             pq   |-> Append(st.pq, <<nd, v>>)])
             ELSE RelaxFrom(es, i + 1, cur_d, u, st)

\* lines 51-66: one iteration of the while loop on the state
\* st = [dist, prev, pq, visited, relaxedAt]
DijkstraIter(a, st) ==
    LET top   == st.pq[HeapTop(st.pq)]
        cur_d == top[1]
        u     == top[2]
        rest  == HeapRest(st.pq)
    IN  IF u \in st.visited
        THEN [st EXCEPT !.pq = rest]
        ELSE IF cur_d # DistGet(st.dist, u)
        THEN [st EXCEPT !.pq = rest, !.visited = @ \cup {u}]
        ELSE LET r == RelaxFrom(neighbors(a, u), 1, cur_d, u,
                                [dist |-> st.dist, prev |-> st.prev, pq |-> rest])
             IN  [dist      |-> r.dist,
                  prev      |-> r.prev,
                  pq        |-> r.pq,
                  visited   |-> st.visited \cup {u},
                  relaxedAt |-> MapPut(st.relaxedAt, u, cur_d)]

(***************************************************************************)
(* rebuild_path                                                            *)
(***************************************************************************)
Reverse(s) == [i \in 1..Len(s) |-> s[Len(s) + 1 - i]]

KeepOrder(s) == s

\* line 82: list(reversed(out_rev))
Reversed(s) == Reverse(s)

\* lines 76-82: the while loop.  A walk of more than |prev| steps that neither
\* reaches start nor leaves prev repeats a node, and the loop never exits:
\* returned = FALSE stands for that.
RECURSIVE Walk(_, _, _, _, _)
Walk(p, s, cur, out_rev, fuel) ==
    IF cur = s THEN [returned |-> TRUE, edges |-> Reversed(out_rev)]
    ELSE IF cur \notin DOMAIN p THEN [returned |-> TRUE, edges |-> <<>>]
    ELSE IF fuel = 0 THEN [returned |-> FALSE, edges |-> <<>>]
    ELSE Walk(p, s, p[cur].parent, Append(out_rev, p[cur].edge), fuel - 1)

rebuild_path(p, s, t) ==
    IF t = s THEN [returned |-> TRUE, edges |-> <<>>]
    ELSE Walk(p, s, t, <<>>, Cardinality(DOMAIN p) + 1)

(***************************************************************************)
(* add_core_connectivity                                                   *)
(***************************************************************************)
OverridesGetDefault(ov, n, dto, dfrom) == <<dto, dfrom>>

\* line 111: overrides.get(n, (default_to_core, default_from_core))
OverridesGet(ov, n, dto, dfrom) == IF n \in DOMAIN ov THEN ov[n] ELSE <<dto, dfrom>>

CoreEdgesToOnly(a, n, core, w) == add_edge(a, n, core, "route_to_core", w[1])

\* lines 112-113: the two hub edges of node n
CoreEdges(a, n, core, w) ==
    add_edge(add_edge(a, n, core, "route_to_core", w[1]),
             core, n, "route_from_core", w[2])

\* lines 110-113: the for loop, from node i of the list on
RECURSIVE CoreLoop(_, _, _, _, _, _, _)
CoreLoop(a, ns, i, core, dto, dfrom, ov) ==
    IF i > Len(ns) THEN a
    ELSE CoreLoop(CoreEdges(a, ns[i], core, OverridesGet(ov, ns[i], dto, dfrom)),
                  ns, i + 1, core, dto, dfrom, ov)

add_core_connectivity(a, ns, core, dto, dfrom, ov) ==
    CoreLoop(add_edge(a, core, core, "noop", 0), ns, 1, core, dto, dfrom, ov)

(***************************************************************************)
(* main: validation, query, ranking                                        *)
(***************************************************************************)
ValidateStartOnly(a, s, t) ==
    IF s \notin nodes(a) THEN "unknown_start" ELSE "ok"

\* lines 243-253
Validate(a, s, t) ==
    IF s \notin nodes(a) THEN "unknown_start"
    ELSE IF t \notin nodes(a) THEN "unknown_target"
    ELSE "ok"

\* lines 271-273: the (asset, cost) pairs in the order of the list
RankPairs(as, d) == [i \in 1..Len(as) |-> <<as[i], DistGet(d, as[i])>>]

\* where a stable sort puts x: behind every element whose key is not larger
RECURSIVE InsertByCost(_, _)
InsertByCost(s, x) ==
    IF s = <<>> THEN <<x>>
    ELSE IF x[2] < s[1][2] THEN <<x>> \o s
    ELSE <<s[1]>> \o InsertByCost(Tail(s), x)

RECURSIVE SortFrom(_, _, _)
SortFrom(s, i, acc) ==
    IF i > Len(s) THEN acc ELSE SortFrom(s, i + 1, InsertByCost(acc, s[i]))

SortNone(s) == s

\* line 274: ranked.sort(key=lambda x: x[1]), a stable sort
SortByCost(s) == SortFrom(s, 1, <<>>)

(***************************************************************************)
(* Actions                                                                 *)
(***************************************************************************)
HubLabels == {"noop", "route_to_core", "route_from_core"}

RECURSIVE CountOrganic(_, _)
CountOrganic(es, i) ==
    IF i > Len(es) THEN 0
    ELSE (IF es[i].Result \in HubLabels THEN 0 ELSE 1) + CountOrganic(es, i + 1)

RECURSIVE SumOver(_, _)
SumOver(a, ks) ==
    IF ks = {} THEN 0
    ELSE LET k == CHOOSE x \in ks : TRUE
         IN  CountOrganic(a[k], 1) + SumOver(a, ks \ {k})

\* number of edges stored by add_edge calls other than the hub's
OrganicCount(a) == SumOver(a, DOMAIN a)

NodeLists == {<<"A">>, <<"A", "B">>, <<"B", "C", "A", "H">>}
Hubs == {"H", "C"}
DefaultPairs == {<<3, 2>>}
OverrideSets ==
    { EmptyMap,
      [n \in {"A"} |-> <<1, 1>>],
      [n \in {"A", "B"} |-> IF n = "A" THEN <<4, 0>> ELSE <<0, 5>>] }
AssetLists == {<<"C", "B", "A">>, <<"B", "C">>}

QueryVarsUnchanged ==
    UNCHANGED <<pc, start, target, dist, prev, pq, visited, relaxedAt,
                report, cost, path, assets, ranked>>

Init ==
    /\ adj = EmptyMap
    /\ aug = <<>>
    /\ pc = "build"
    /\ start = ""
    /\ target = ""
    /\ dist = EmptyMap
    /\ prev = EmptyMap
    /\ pq = <<>>
    /\ visited = {}
    /\ relaxedAt = EmptyMap
    /\ report = ""
    /\ cost = <<>>
    /\ path = <<>>
    /\ assets = <<>>
    /\ ranked = <<>>

\* Graph.add_edge called by the graph's builder
AddEdgeOp(limit, P, W) ==
    /\ pc = "build"
    /\ OrganicCount(adj) < limit
    /\ \E p \in P, w \in W :
         adj' = add_edge(adj, p[1], p[2], "network_connect", w)
    /\ UNCHANGED aug
    /\ QueryVarsUnchanged

AddEdge == AddEdgeOp(MaxEdges, Pairs, Weights)

AddEdgeAny == AddEdgeOp(MaxEdgesAny, AnyPairs, AnyWeights)

AddEdgeAug == AddEdgeOp(MaxOrganic, Pairs, Weights)

\* add_core_connectivity called by the graph's builder (once, as build_demo_graph does)
AddCoreConnectivity ==
    /\ pc = "build"
    /\ aug = <<>>
    /\ \E ns \in NodeLists, core \in Hubs, dw \in DefaultPairs, ov \in OverrideSets :
         /\ adj' = add_core_connectivity(adj, ns, core, dw[1], dw[2], ov)
         /\ aug' = <<[nodes |-> ns, core |-> core, dto |-> dw[1], dfrom |-> dw[2],
                      overrides |-> ov]>>
    /\ QueryVarsUnchanged

\* main, lines 240-255 and dijkstra, lines 46-49: read the two nodes, validate
\* them, and set up the search
StartQueryOp(N) ==
    /\ pc = "build"
    /\ \E s \in N, t \in N :
         LET v == Validate(adj, s, t)
         IN  /\ start' = s
             /\ target' = t
             /\ IF v = "ok"
                THEN /\ pc' = "run"
                     /\ report' = report
                     /\ dist' = [x \in {s} |-> 0]
                     /\ pq' = << <<0, s>> >>
                ELSE /\ pc' = "failed"
                     /\ report' = v
                     /\ dist' = dist
                     /\ pq' = pq
    /\ UNCHANGED <<adj, aug, prev, visited, relaxedAt, cost, path, assets, ranked>>

StartQuery == StartQueryOp(Nodes)

StartQueryAug == StartQueryOp(AllNodes)

\* dijkstra, lines 51-66: one iteration of the while loop
DijkstraStep ==
    /\ pc = "run"
    /\ pq # <<>>
    /\ LET st == DijkstraIter(adj, [dist |-> dist, prev |-> prev, pq |-> pq,
                                    visited |-> visited, relaxedAt |-> relaxedAt])
       IN  /\ dist' = st.dist
           /\ prev' = st.prev
           /\ pq' = st.pq
           /\ visited' = st.visited
           /\ relaxedAt' = st.relaxedAt
    /\ UNCHANGED <<adj, aug, pc, start, target, report, cost, path, assets, ranked>>

\* dijkstra returns (line 68); main, lines 256-277: cost, path, the status
\* line, and the ranking of the asset list
Finish ==
    /\ pc = "run"
    /\ pq = <<>>
    /\ LET rp == rebuild_path(prev, start, target)
       IN  /\ cost' = <<DistGet(dist, target)>>
           /\ IF rp.returned
              THEN /\ pc' = "done"
                   /\ path' = rp.edges
                   /\ report' = "path_found"
                   /\ \E as \in AssetLists :
                        /\ assets' = as
                        /\ ranked' = SortByCost(RankPairs(as, dist))
              ELSE /\ pc' = "hung"
                   /\ UNCHANGED <<path, report, assets, ranked>>
    /\ UNCHANGED <<adj, aug, start, target, dist, prev, pq, visited, relaxedAt>>

Next == AddEdge \/ StartQuery \/ DijkstraStep \/ Finish

NextAny == AddEdgeAny \/ StartQuery \/ DijkstraStep \/ Finish

NextAug == AddEdgeAug \/ AddCoreConnectivity \/ StartQueryAug \/ DijkstraStep \/ Finish

\* main is one thread that runs to completion: a loop iteration or the code
\* after the loop that can run does run
Fairness == WF_vars(DijkstraStep) /\ WF_vars(Finish)

Spec == Init /\ [][Next]_vars

SpecAny == Init /\ [][NextAny]_vars /\ Fairness

SpecAug == Init /\ [][NextAug]_vars

(***************************************************************************)
(* Reference definitions used by the properties                            *)
(***************************************************************************)
EdgesOf(a) == UNION {{a[k][i] : i \in 1..Len(a[k])} : k \in DOMAIN a}

MinOf(S) == CHOOSE x \in S : \A y \in S : x <= y

\* WalkCost(a, s, k)[v]: the least total weight of a directed walk from s to v
\* of at most k edges (Inf if there is none)
RECURSIVE WalkCost(_, _, _)
WalkCost(a, s, k) ==
    IF k = 0 THEN [v \in DOMAIN a \cup {s} |-> IF v = s THEN 0 ELSE Inf]
    ELSE LET d == WalkCost(a, s, k - 1)
         IN  [v \in DOMAIN d |->
                MinOf({d[v]} \cup {d[e.src] + e.weight :
                                    e \in {x \in EdgesOf(a) : x.dst = v /\ d[x.src] # Inf}})]

\* with non-negative weights a cheapest path visits no node twice
ShortestFrom(a, s) == WalkCost(a, s, Cardinality(DOMAIN a))

HasPath(a, s, t) == ShortestFrom(a, s)[t] # Inf

RECURSIVE SumWeights(_, _)
SumWeights(es, i) == IF i > Len(es) THEN 0 ELSE es[i].weight + SumWeights(es, i + 1)

Finished == pc = "done"

(***************************************************************************)
(* C1: when dijkstra has returned on a graph of non-negative weights, dist *)
(* holds exactly the nodes that a directed path from start reaches, each   *)
(* with the least total weight of such a path, and dist[start] = 0.        *)
(***************************************************************************)
C1_DistIsShortest ==
    Finished =>
        LET ref == ShortestFrom(adj, start)
        IN  /\ dist[start] = 0
            /\ \A t \in DOMAIN adj :
                 /\ (t \in DOMAIN dist) <=> (ref[t] # Inf)
                 /\ (t \in DOMAIN dist) => dist[t] = ref[t]
            /\ DOMAIN dist \subseteq DOMAIN adj

\* a two-edge route beats a direct edge, and some node is out of reach
C1_Witness ==
    /\ Finished
    /\ \E e \in EdgesOf(adj) : e.src = start /\ e.dst # start /\ dist[e.dst] < e.weight
    /\ DOMAIN dist # DOMAIN adj

(***************************************************************************)
(* C2: for a target that dijkstra reached, rebuild_path returns edges of   *)
(* the graph that lead from start to target without a gap and whose        *)
(* weights add up to dist[target]; it is empty exactly when target = start.*)
(***************************************************************************)
C2_PathIsContiguous ==
    (Finished /\ target \in DOMAIN dist) =>
        /\ (path = <<>>) <=> (target = start)
        /\ \A i \in 1..Len(path) :
             /\ path[i].src \in DOMAIN adj
             /\ \E j \in 1..Len(adj[path[i].src]) : adj[path[i].src][j] = path[i]
        /\ path # <<>> => path[1].src = start /\ path[Len(path)].dst = target
        /\ \A i \in 1..(Len(path) - 1) : path[i].dst = path[i + 1].src
        /\ SumWeights(path, 1) = dist[target]

C2_Witness == Finished /\ Len(path) >= 2 /\ SumWeights(path, 1) > 0

(***************************************************************************)
(* C3: once add_core_connectivity has covered a node list, a query between *)
(* any two nodes of the list finds the target with a finite cost.          *)
(***************************************************************************)
Covered == IF aug = <<>> THEN {} ELSE {aug[1].nodes[i] : i \in 1..Len(aug[1].nodes)}

C3_CoveredPairsReachable ==
    (Finished /\ start \in Covered /\ target \in Covered) =>
        /\ target \in DOMAIN dist
        /\ cost = <<dist[target]>>
        /\ cost[1] < Inf

\* two covered nodes that only the hub connects
C3_Witness ==
    /\ Finished
    /\ start \in Covered /\ target \in Covered /\ start # target
    /\ Len(path) = 2
    /\ path[1].Result = "route_to_core" /\ path[2].Result = "route_from_core"

(***************************************************************************)
(* C4: a query whose start or target is not a node of the graph ends in    *)
(* the explicit failure report; no search is run and no cost, path or      *)
(* ranking is produced for it.                                             *)
(***************************************************************************)
C4_UnknownNodeFails ==
    (pc # "build" /\ (start \notin DOMAIN adj \/ target \notin DOMAIN adj)) =>
        /\ pc = "failed"
        /\ report = (IF start \notin DOMAIN adj THEN "unknown_start" ELSE "unknown_target")
        /\ cost = <<>> /\ path = <<>> /\ ranked = <<>>
        /\ dist = EmptyMap /\ pq = <<>>

C4_Witness ==
    /\ pc = "failed" /\ report = "unknown_target"
    /\ start \in DOMAIN adj /\ target \notin DOMAIN adj

C6_AdjacencyClosed ==
    \A k \in DOMAIN adj : \A i \in 1..Len(adj[k]) :
        /\ adj[k][i].src = k
        /\ adj[k][i].dst \in DOMAIN adj

\* a node that is only ever a destination, in a graph that was also augmented
C6_Witness ==
    /\ aug # <<>>
    /\ OrganicCount(adj) > 0
    /\ \E k \in DOMAIN adj : adj[k] = <<>> /\ \E e \in EdgesOf(adj) : e.dst = k

(***************************************************************************)
(* C7: the ranking holds every asset of the list once, with its distance   *)
(* (infinity when dijkstra did not reach it), in non-decreasing order of   *)
(* cost, so no unreached asset stands before a reached one.                *)
(***************************************************************************)
C7_RankingSorted ==
    Finished =>
        /\ Len(ranked) = Len(assets)
        /\ \A i \in 1..Len(assets) :
             /\ Cardinality({j \in 1..Len(ranked) : ranked[j][1] = assets[i]}) = 1
             /\ \E j \in 1..Len(ranked) :
                  ranked[j] = <<assets[i],
                                IF assets[i] \in DOMAIN dist THEN dist[assets[i]] ELSE Inf>>
        /\ \A i \in 1..(Len(ranked) - 1) : ranked[i][2] <= ranked[i + 1][2]
        /\ \A i \in 1..Len(ranked) : \A j \in 1..Len(ranked) :
             (ranked[i][1] \notin DOMAIN dist /\ ranked[j][1] \in DOMAIN dist) => j < i

\* the sort moved something, and an unreached asset is ranked with a reached one
C7_Witness ==
    /\ Finished
    /\ \E i \in 1..Len(ranked) : ranked[i][1] # assets[i]
    /\ \E i \in 1..Len(ranked) : ranked[i][2] = Inf
    /\ \E i \in 1..Len(ranked) : ranked[i][2] > 0 /\ ranked[i][2] < Inf

(***************************************************************************)
(* C8: in a graph whose only edges come from one add_core_connectivity     *)
(* call, the cost from a covered node n (other than the hub) to the hub is *)
(* n's override to-weight if it has an override and the default to-weight  *)
(* otherwise, and the cost from the hub to n is the matching from-weight.  *)
(***************************************************************************)
C8_OverridesTakePrecedence ==
    (Finished /\ aug # <<>> /\ OrganicCount(adj) = 0) =>
        LET c    == aug[1]
            h    == c.core
            to   == [n \in Covered |->
                       IF n \in DOMAIN c.overrides THEN c.overrides[n][1] ELSE c.dto]
            from == [n \in Covered |->
                       IF n \in DOMAIN c.overrides THEN c.overrides[n][2] ELSE c.dfrom]
        IN  \A n \in Covered \ {h} :
              /\ (start = n /\ target = h) => cost = <<to[n]>>
              /\ (start = h /\ target = n) => cost = <<from[n]>>

\* an overridden node queried against the hub, at a cost that is not the default
C8_Witness ==
    /\ Finished /\ aug # <<>> /\ OrganicCount(adj) = 0
    /\ start \in Covered /\ start \in DOMAIN aug[1].overrides
    /\ target = aug[1].core /\ start # target
    /\ cost # <<aug[1].dto>>

(***************************************************************************)
(* C9: the dijkstra loop always comes to an empty priority queue, for      *)
(* graphs with negative weights and cycles too.                            *)
(***************************************************************************)
\* entries still to pop, plus those the nodes not yet visited can still push
RECURSIVE PushesLeft(_, _)
PushesLeft(a, ks) ==
    IF ks = {} THEN 0
    ELSE LET k == CHOOSE x \in ks : TRUE
         IN  Len(a[k]) + 1 + PushesLeft(a, ks \ {k})

LoopVariant == Len(pq) + PushesLeft(adj, DOMAIN adj \ visited)

C9_DijkstraTerminates ==
    /\ (pc = "run") ~> (pc = "run" /\ pq = <<>>)
    /\ [][(pc = "run" /\ pq # <<>>) => LoopVariant' < LoopVariant]_vars

\* the loop has ended on a graph with a negative cycle through start
C9_Witness == pc = "run" /\ pq = <<>> /\ dist[start] < 0 /\ Cardinality(visited) >= 2

(***************************************************************************)
(* C10: an entry popped for a node that is not yet visited carries the     *)
(* node's current distance, so every visited node had its edges relaxed    *)
(* in the iteration that visited it, and (the weights being non-negative)  *)
(* its distance has not changed since.                                     *)
(***************************************************************************)
C10_NoNodeStranded ==
    (pc \in {"run", "done"}) =>
        /\ pq # <<>> =>
             LET top == pq[HeapTop(pq)]
             IN  top[2] \notin visited =>
                   (top[2] \in DOMAIN dist /\ top[1] = dist[top[2]])
        /\ DOMAIN relaxedAt = visited
        /\ \A u \in visited : u \in DOMAIN dist /\ dist[u] = relaxedAt[u]

\* a stale entry is about to be popped: its node is visited at a smaller distance
C10_Witness ==
    /\ pc = "run" /\ pq # <<>>
    /\ LET top == pq[HeapTop(pq)]
       IN  top[2] \in visited /\ top[1] > dist[top[2]]

====
